---- MODULE Spec2Model ----
(***************************************************************************)
(* Model of the Discord webhook hook for Logrus (src/hook.go).             *)
(*                                                                         *)
(* The process is one caller (the goroutine that logs, typically an HTTP   *)
(* handler holding one live *http.Request) plus one delivery goroutine per *)
(* Fire call that got past the URL check.  Go strings and byte slices are  *)
(* TLA+ strings; pointers are indexes into the heaps requests and streams  *)
(* (0 is nil).  An unrecovered panic in any goroutine ends the whole       *)
(* process (crashed).                                                      *)
(***************************************************************************)
EXTENDS Integers, Sequences, FiniteSets, TLC

(***************************************************************************)
(* Bounds of the model.                                                    *)
(***************************************************************************)
\* Fire calls the caller makes in one run.
MaxFires == 2
\* Levels passed to NewHook.
MaxLevelArgs == 2
\* Single-byte reads the caller makes of its request body.
MaxPeek == 2

(***************************************************************************)
(* Strings.                                                                *)
(***************************************************************************)
RECURSIVE Rep(_, _)
\* strings.Repeat(c, n)
Rep(c, n) ==
    IF n <= 0 THEN ""
    ELSE IF n % 2 = 0 THEN LET h == Rep(c, n \div 2) IN h \o h
    ELSE c \o Rep(c, n - 1)

\* s[i:] and s[:i] of Go (0-based cut points)
From(s, i) == SubSeq(s, i + 1, Len(s))
UpTo(s, i) == SubSeq(s, 1, i)

HasPrefix(s, p) == Len(s) >= Len(p) /\ SubSeq(s, 1, Len(p)) = p

\* strings.Contains(s, sub)
Contains(s, sub) ==
    \E i \in 1..(Len(s) - Len(sub) + 1) : SubSeq(s, i, i + Len(sub) - 1) = sub

(***************************************************************************)
(* logrus levels, by their Level.String() text, and strings.ToUpper of it. *)
(***************************************************************************)
PanicLevel == "panic"
FatalLevel == "fatal"
ErrorLevel == "error"
WarnLevel  == "warning"
InfoLevel  == "info"
DebugLevel == "debug"
TraceLevel == "trace"

AllLevels ==
    {PanicLevel, FatalLevel, ErrorLevel, WarnLevel, InfoLevel, DebugLevel, TraceLevel}

ToUpperLevel(l) ==
    CASE l = PanicLevel -> "PANIC"
      [] l = FatalLevel -> "FATAL"
      [] l = ErrorLevel -> "ERROR"
      [] l = WarnLevel  -> "WARNING"
      [] l = InfoLevel  -> "INFO"
      [] l = DebugLevel -> "DEBUG"
      [] OTHER          -> "TRACE"

REQUEST_FIELD_KEY == "request"

(***************************************************************************)
(* Library operations the hook calls, by what they do.                     *)
(***************************************************************************)
\* A body stream: data is what the stream delivers, off how much of it has
\* been read, err whether the read after the last byte fails instead of
\* reporting io.EOF.
Remaining(st) == From(st.data, st.off)

\* bytes.NewBuffer(b) wrapped by io.NopCloser: a fresh stream at offset 0
NewBuffer(b) == [data |-> b, off |-> 0, err |-> FALSE]

\* io.ReadAll, whose error the hook drops but whose bytes it keeps: ReadAll
\* returns the data it read before the error.
ReadAllDropsPartial(st) == [bytes |-> IF st.err THEN "" ELSE Remaining(st), err |-> st.err]
ReadAll(st) == [bytes |-> Remaining(st), err |-> st.err]

\* the stream once ReadAll has run on it
Drained(st) == [st EXCEPT !.off = Len(st.data)]

\* Request.Clone of net/http: a shallow copy with deep-copied URL, Header and
\* forms; the Body pointer is shared with the original.
Clone(r) == r

NilForm == [nil |-> TRUE]

(***************************************************************************)
(* mime.ParseMediaType, as far as net/http's multipartReader uses it.      *)
(* A value that is used several times is handed on as a parameter.         *)
(***************************************************************************)
Char(s, i) == SubSeq(s, i, i)

\* first 1-based position of sub in s, 0 when there is none (strings.Index + 1)
IndexOf(s, sub) ==
    LET hits == {i \in 1..(Len(s) - Len(sub) + 1) : SubSeq(s, i, i + Len(sub) - 1) = sub}
    IN  IF hits = {} THEN 0 ELSE CHOOSE i \in hits : \A j \in hits : i <= j

\* strings.Cut(s, sep): what is before sep and what is after it, sep found at i
BeforeAt(s, i) == IF i = 0 THEN s ELSE UpTo(s, i - 1)
AfterAt(s, i, n) == IF i = 0 THEN "" ELSE From(s, i - 1 + n)
CutBefore(s, sep) == BeforeAt(s, IndexOf(s, sep))
CutAfter(s, sep) == AfterAt(s, IndexOf(s, sep), Len(sep))

Uppers == "ABCDEFGHIJKLMNOPQRSTUVWXYZ"
Lowers == "abcdefghijklmnopqrstuvwxyz"
LowerAt(c, i) == IF i = 0 THEN c ELSE Char(Lowers, i)
RECURSIVE ToLower(_)
\* strings.ToLower on ASCII
ToLower(s) ==
    IF s = "" THEN "" ELSE LowerAt(Char(s, 1), IndexOf(Uppers, Char(s, 1))) \o ToLower(From(s, 1))

\* number of spaces s starts with, and ends with
LeadingSpaces(s) ==
    CHOOSE n \in 0..Len(s) :
        /\ \A i \in 1..n : Char(s, i) = " "
        /\ n = Len(s) \/ Char(s, n + 1) # " "
TrailingSpaces(s) ==
    CHOOSE n \in 0..Len(s) :
        /\ \A i \in (Len(s) - n + 1)..Len(s) : Char(s, i) = " "
        /\ n = Len(s) \/ Char(s, Len(s) - n) # " "
TrimLeft(s) == From(s, LeadingSpaces(s))
TrimRight(s) == UpTo(s, Len(s) - TrailingSpaces(s))
TrimSpace(s) == TrimLeft(TrimRight(s))

\* mime's token characters: no space, no tspecials
NotTokenChars == {" ", "(", ")", "<", ">", "@", ",", ";", ":", "\\", "\"", "/",
                  "[", "]", "?", "="}

\* length of the token consumeToken takes off the front of s
TokenLen(s) ==
    CHOOSE n \in 0..Len(s) :
        /\ \A i \in 1..n : Char(s, i) \notin NotTokenChars
        /\ n = Len(s) \/ Char(s, n + 1) \in NotTokenChars

\* checkMediaTypeDisposition: token [ "/" token ] and nothing more
SubtypeOk(rest) ==
    \/ rest = ""
    \/ /\ HasPrefix(rest, "/")
       /\ Len(rest) > 1
       /\ TokenLen(From(rest, 1)) = Len(rest) - 1
MediaTypeOkAt(mt, n) == n > 0 /\ SubtypeOk(From(mt, n))
MediaTypeOk(mt) == MediaTypeOkAt(mt, TokenLen(mt))

\* consumeMediaParam on v: [ok, key, value, rest], in the order the code
\* takes the pieces: ";", the key, "=", the value.  A quoted value runs to
\* the next quote (no backslash escapes in the inputs modelled).
NoParam == [ok |-> FALSE, key |-> "", value |-> "", rest |-> ""]
GotParam(key, value, rest) == [ok |-> TRUE, key |-> key, value |-> value, rest |-> rest]

QuotedValue(key, r3, q) ==
    IF q = 0 THEN NoParam ELSE GotParam(key, SubSeq(r3, 2, q), From(r3, q + 1))
TokenValue(key, r3, vn) ==
    IF vn = 0 THEN NoParam ELSE GotParam(key, UpTo(r3, vn), From(r3, vn))
ParamValue(key, r3) ==
    IF HasPrefix(r3, "\"") THEN QuotedValue(key, r3, IndexOf(From(r3, 1), "\""))
    ELSE TokenValue(key, r3, TokenLen(r3))
ParamEquals(key, r2) ==
    IF HasPrefix(r2, "=") THEN ParamValue(key, TrimLeft(From(r2, 1))) ELSE NoParam
ParamKeyAt(r1, kn) ==
    IF kn = 0 THEN NoParam
    ELSE ParamEquals(ToLower(UpTo(r1, kn)), TrimLeft(From(r1, kn)))
ParamKey(r1) == ParamKeyAt(r1, TokenLen(r1))
ParamSemicolon(r0) ==
    IF HasPrefix(r0, ";") THEN ParamKey(TrimLeft(From(r0, 1))) ELSE NoParam
ConsumeMediaParam(v) == ParamSemicolon(TrimLeft(v))

HasParam(params, k) == \E i \in 1..Len(params) : params[i][1] = k
Param(params, k) == params[CHOOSE i \in 1..Len(params) : params[i][1] = k][2]

RECURSIVE MediaParams(_, _)
\* one round of the parameter loop of ParseMediaType, p the parameter
\* consumed from v1
MediaParamsStep(v1, seen, p) ==
    IF ~p.ok
    THEN IF TrimSpace(v1) = ";" THEN [err |-> "", params |-> seen]
         ELSE [err |-> "mime: invalid media parameter", params |-> <<>>]
    ELSE IF HasParam(seen, p.key)
    THEN [err |-> "mime: duplicate parameter name", params |-> <<>>]
    ELSE MediaParams(p.rest, Append(seen, <<p.key, p.value>>))
MediaParamsFrom(v1, seen) ==
    IF v1 = "" THEN [err |-> "", params |-> seen]
    ELSE MediaParamsStep(v1, seen, ConsumeMediaParam(v1))
\* the parameter loop of ParseMediaType: [err, params], params a sequence of
\* <<key, value>>
MediaParams(v, seen) == MediaParamsFrom(TrimLeft(v), seen)

ParseMediaTypeWith(mt, ps) ==
    IF ~MediaTypeOk(mt)
    THEN [mediatype |-> "", params |-> <<>>, err |-> "mime: bad media type"]
    ELSE [mediatype |-> mt, params |-> ps.params, err |-> ps.err]
ParseMediaTypeAt(v, i) ==
    ParseMediaTypeWith(TrimSpace(ToLower(BeforeAt(v, i))),
                       MediaParams(IF i = 0 THEN "" ELSE From(v, i - 1), <<>>))
\* mime.ParseMediaType(v): [mediatype, params, err]
ParseMediaType(v) == ParseMediaTypeAt(v, IndexOf(v, ";"))

(***************************************************************************)
(* Maps with string keys (url.Values, multipart.Form.Value and .File).     *)
(***************************************************************************)
EmptyMap == <<>>

\* m[k] = append(m[k], v)
MapAppend(m, k, v) ==
    IF k \in DOMAIN m THEN [m EXCEPT ![k] = Append(@, v)]
    ELSE [x \in DOMAIN m \cup {k} |-> IF x = k THEN <<v>> ELSE m[x]]

(***************************************************************************)
(* url.ParseQuery.                                                         *)
(***************************************************************************)
HexDigits == {"0", "1", "2", "3", "4", "5", "6", "7", "8", "9",
              "a", "b", "c", "d", "e", "f", "A", "B", "C", "D", "E", "F"}

\* the byte a %XX escape stands for; the escapes the modelled inputs use
Unhex(xx) ==
    CASE xx = "20" -> " "
      [] xx = "25" -> "%"
      [] xx = "26" -> "&"
      [] xx = "2B" -> "+"
      [] xx = "3D" -> "="
      [] OTHER     -> "?"

\* QueryUnescape's first pass: every % is followed by two hex digits
EscapesOk(s) ==
    \A i \in 1..Len(s) :
        Char(s, i) = "%" =>
            /\ i + 2 <= Len(s)
            /\ Char(s, i + 1) \in HexDigits
            /\ Char(s, i + 2) \in HexDigits

RECURSIVE Unescaped(_)
\* QueryUnescape's second pass, on a string that passed the first
Unescaped(s) ==
    IF s = "" THEN ""
    ELSE IF Char(s, 1) = "%" THEN Unhex(SubSeq(s, 2, 3)) \o Unescaped(From(s, 3))
    ELSE IF Char(s, 1) = "+" THEN " " \o Unescaped(From(s, 1))
    ELSE Char(s, 1) \o Unescaped(From(s, 1))

\* if err == nil { err = e }
FirstErr(err, e) == IF err = "" THEN e ELSE err

RECURSIVE ParseQueryLoop(_, _, _)
ParseQueryPair(rest, m, err, key, value) ==
    IF ~EscapesOk(key) \/ ~EscapesOk(value)
    THEN ParseQueryLoop(rest, m, FirstErr(err, "invalid URL escape"))
    ELSE ParseQueryLoop(rest, MapAppend(m, Unescaped(key), Unescaped(value)), err)
ParseQueryPiece(rest, m, err, pair) ==
    IF Contains(pair, ";")
    THEN ParseQueryLoop(rest, m, FirstErr(err, "invalid semicolon separator in query"))
    ELSE IF pair = "" THEN ParseQueryLoop(rest, m, err)
    ELSE ParseQueryPair(rest, m, err, CutBefore(pair, "="), CutAfter(pair, "="))
ParseQueryLoop(query, m, err) ==
    IF query = "" THEN [values |-> m, err |-> err]
    ELSE ParseQueryPiece(CutAfter(query, "&"), m, err, CutBefore(query, "&"))

\* url.ParseQuery(query): [values, err], err the first error met ("" for nil)
ParseQuery(query) == ParseQueryLoop(query, EmptyMap, "")

(***************************************************************************)
(* mime/multipart's ReadForm, for bodies in the layout multipart.Writer    *)
(* produces: each part is                                                  *)
(*   --B CRLF Content-Disposition: form-data; name="k"[; filename="f"] CRLF *)
(*   [more header lines CRLF] CRLF data CRLF                                *)
(* and the body ends with --B-- CRLF.                                      *)
(***************************************************************************)
CRLF == "\r\n"

\* the value of  key="..."  in a header block, "" when absent
HeaderParamOf(hdr, k) ==
    IF IndexOf(hdr, k) = 0 THEN "" ELSE CutBefore(CutAfter(hdr, k), "\"")
HeaderParam(hdr, key) == HeaderParamOf(hdr, key \o "=\"")

FormError(e) == [err |-> e, Value |-> EmptyMap, File |-> EmptyMap]

RECURSIVE ReadParts(_, _, _, _)
\* ReadForm's use of one part: a value, a file, or (no name) nothing
AddPart(name, filename, data, rest, dash, value, file) ==
    IF name = "" THEN ReadParts(rest, dash, value, file)
    ELSE IF filename = ""
    THEN ReadParts(rest, dash, MapAppend(value, name, data), file)
    ELSE ReadParts(rest, dash, value,
                   MapAppend(file, name, [Filename |-> filename, Size |-> Len(data)]))
\* the part's data, up to the next delimiter, found at i
ReadPartData(hdr, afterHdr, i, dash, value, file) ==
    IF i = 0 THEN FormError("unexpected EOF")
    \* name= is matched after "; " so that filename= is not taken for it
    ELSE AddPart(HeaderParam(hdr, "; name"), HeaderParam(hdr, "filename"),
                 UpTo(afterHdr, i - 1), From(afterHdr, i - 1 + Len(CRLF)),
                 dash, value, file)
\* the part's header block, ended by an empty line, found at i
ReadPartHeader(afterLine, i, dash, value, file) ==
    IF i = 0 THEN FormError("multipart: NextPart: EOF")
    ELSE ReadPartData(UpTo(afterLine, i - 1), From(afterLine, i - 1 + 2 * Len(CRLF)),
                      IndexOf(From(afterLine, i - 1 + 2 * Len(CRLF)), CRLF \o dash),
                      dash, value, file)
ReadParts(s, dash, value, file) ==
    IF HasPrefix(s, dash \o "--") THEN [err |-> "", Value |-> value, File |-> file]
    ELSE IF ~HasPrefix(s, dash \o CRLF) THEN FormError("multipart: NextPart: EOF")
    ELSE ReadPartHeader(CutAfter(s, CRLF), IndexOf(CutAfter(s, CRLF), CRLF \o CRLF),
                        dash, value, file)

\* multipart.NewReader(body, boundary).ReadForm(maxMemory): [err, Value, File]
ReadForm(body, boundary) == ReadParts(body, "--" \o boundary, EmptyMap, EmptyMap)

(***************************************************************************)
(* Request.ParseMultipartForm of net/http on a request r whose Form is not *)
(* yet parsed; body is what r.Body still holds.                            *)
(***************************************************************************)
ErrNotMultipart == "request Content-Type isn't multipart/form-data"
ErrMissingBoundary == "no multipart boundary param in Content-Type"

RawQuery(u) == CutAfter(u, "?")

\* parsePostForm's error
PostFormErr(r) ==
    IF r.Method \in {"POST", "PUT", "PATCH"}
    THEN IF r.Body = 0 THEN "missing form body"
         ELSE ParseMediaType(IF r.ContentType = "" THEN "application/octet-stream"
                             ELSE r.ContentType).err
    ELSE ""
\* r.ParseForm(): the error of parsePostForm if any, else that of the URL query
ParseFormErr(r) == FirstErr(PostFormErr(r), ParseQuery(RawQuery(r.URL)).err)

StopParse(e) == [err |-> e, form |-> NilForm, read |-> FALSE]

ParseWithForm(r, f) ==
    IF f.err # "" THEN [err |-> f.err, form |-> NilForm, read |-> TRUE]
    ELSE [err  |-> ParseFormErr(r),
          form |-> [nil |-> FALSE, Value |-> f.Value, File |-> f.File],
          read |-> TRUE]
\* multipartReader, mt the parsed Content-Type, then ReadForm
ParseWithMediaType(r, body, mt) ==
    IF mt.err # "" \/ mt.mediatype # "multipart/form-data" THEN StopParse(ErrNotMultipart)
    ELSE IF ~HasParam(mt.params, "boundary") THEN StopParse(ErrMissingBoundary)
    ELSE ParseWithForm(r, ReadForm(body, Param(mt.params, "boundary")))
\* [err, form, read]: the error returned ("" for nil), r.MultipartForm
\* afterwards, and whether the body stream was read
ParseMultipartForm(r, body) ==
    IF ~r.MultipartForm.nil
    THEN [err |-> "", form |-> r.MultipartForm, read |-> FALSE]
    ELSE IF r.ContentType = "" THEN StopParse(ErrNotMultipart)
    ELSE IF r.Body = 0 THEN StopParse("missing form body")
    ELSE ParseWithMediaType(r, body, ParseMediaType(r.ContentType))

(***************************************************************************)
(* Text the hook builds.  A text is a sequence of pieces: literal strings  *)
(* and JSON texts, a JSON text being kept as the value it encodes (equal   *)
(* values encode equally, json sorts map keys).                            *)
(***************************************************************************)
Lit(s) == <<[s |-> s]>>

\* string(json.MarshalIndent(v, "", "  "))
MarshalIndent(v) == <<[json |-> v, indent |-> "  "]>>

\* json.Marshal(v): the bytes, kept as the value they encode
Marshal(v) == [json |-> v]

Digits2(n) == IF n < 10 THEN "0" \o ToString(n) ELSE ToString(n)

\* fmt.Sprintf("%.2f KB", float64(size)/1024): hundredths, ties to even
SizeKB(size) ==
    LET q == (size * 100) \div 1024
        r == (size * 100) % 1024
        h == IF 2 * r > 1024 \/ (2 * r = 1024 /\ q % 2 = 1) THEN q + 1 ELSE q
    IN  ToString(h \div 100) \o "." \o Digits2(h % 100) \o " KB"

(***************************************************************************)
(* State.                                                                  *)
(***************************************************************************)
VARIABLES
    hook,         \* the *Hook: [HookUrl, lvl]
    newHookArgs,  \* the levels NewHook was called with
    entries,      \* the *logrus.Entry of each Fire call, in call order
    rets,         \* what each Fire call returned: "nil" or the error text
    tasks,        \* the delivery goroutine of each Fire call
    atFire,       \* per Fire call: the entry, the request body and callerGot then
    requests,     \* heap of *http.Request; index 1 is the caller's live request
    streams,      \* heap of body streams
    origBody,     \* the bytes the live request's body held when it arrived
    callerGot,    \* the bytes the caller has read from the live request's body
    crashed       \* an unrecovered panic ended the process

vars == <<hook, newHookArgs, entries, rets, tasks, atFire, requests, streams,
          origBody, callerGot, crashed>>

(***************************************************************************)
(* NewHook and Levels.                                                     *)
(***************************************************************************)
DefaultLevels == <<PanicLevel, FatalLevel, ErrorLevel, WarnLevel>>

NewHookExtendsDefault(webhookURL, levels) ==
    [HookUrl |-> webhookURL, lvl |-> DefaultLevels \o levels]
NewHook(webhookURL, levels) ==
    [HookUrl |-> webhookURL,
     lvl     |-> IF Len(levels) = 0 THEN DefaultLevels ELSE levels]

Levels == hook.lvl

(***************************************************************************)
(* Fire, the synchronous part: lines 91-128, the go statement and the      *)
(* return.                                                                 *)
(***************************************************************************)
NilPayload == [nil |-> TRUE, Request |-> 0, Method |-> "", URL |-> "",
               BodyString |-> "", Headers |-> ""]

\* The goroutine as the go statement leaves it: it has its argument drp and
\* has run nothing yet.
NewTask(drp) ==
    [pc |-> "render", drp |-> drp, errorMessage |-> "", embedCollor |-> 0,
     bodyBytes |-> "", fields |-> <<>>, messageToSend |-> "",
     sendAsFile |-> FALSE, title |-> "", timestamp |-> "", payload |-> <<>>,
     posts |-> <<>>, stdout |-> <<>>]

\* No goroutine: Fire returned before the go statement.
NoTask == [NewTask(NilPayload) EXCEPT !.pc = "none"]

\* line 111 on stream old, then its bytes in the buffers bufs, of which the
\* original (o) gets number 1 and the clone (c) number forClone
Rebuffer(reqs, strs, o, c, old, bufs, forClone) ==
    [requests |-> [reqs EXCEPT ![o].Body = Len(strs) + 1,
                               ![c].Body = Len(strs) + forClone],
     streams  |-> [strs EXCEPT ![old] = Drained(@)] \o bufs]

\* Lines 109-116 with both requests sharing one buffer.
SnapshotBodyShared(reqs, strs, o, c) ==
    Rebuffer(reqs, strs, o, c, reqs[o].Body,
             <<NewBuffer(ReadAll(strs[reqs[o].Body]).bytes)>>, 1)

\* Lines 109-116 without line 114: the original keeps the drained stream.
SnapshotBodyNoRestore(reqs, strs, o, c) ==
    [requests |-> [reqs EXCEPT ![c].Body = Len(strs) + 1],
     streams  |-> [strs EXCEPT ![reqs[o].Body] = Drained(@)]
                    \o <<NewBuffer(ReadAll(strs[reqs[o].Body]).bytes)>>]

\* Lines 109-116: read the original's body to the end, then give the original
\* (o) and the clone (c) each a fresh buffer over the bytes read.
SnapshotBody(reqs, strs, o, c) ==
    Rebuffer(reqs, strs, o, c, reqs[o].Body,
             <<NewBuffer(ReadAll(strs[reqs[o].Body]).bytes),
               NewBuffer(ReadAll(strs[reqs[o].Body]).bytes)>>, 2)

\* lines 104-106: the payload holding the clone c, over the heaps h
SnapshotOfClone(c, h) ==
    [drp |-> [NilPayload EXCEPT !.nil = FALSE, !.Request = c],
     requests |-> h.requests, streams |-> h.streams]

\* lines 103-116: reqs1 is the heap with the clone c of the original o
SnapshotLive(o, c, reqs1, strs) ==
    SnapshotOfClone(c, IF reqs1[o].Body # 0
                       THEN SnapshotBody(reqs1, strs, o, c)
                       ELSE [requests |-> reqs1, streams |-> strs])

\* lines 98-126 on v, the value under the key "request"
SnapshotOf(v, reqs, strs) ==
    IF v.type # "LoggerHttpRequestPayload"
    THEN [drp |-> NilPayload, requests |-> reqs, streams |-> strs]
    ELSE IF v.Request # 0
    THEN SnapshotLive(v.Request, Len(reqs) + 1,
                      Append(reqs, Clone(reqs[v.Request])), strs)
    ELSE [drp |-> [nil |-> FALSE, Request |-> 0, Method |-> v.Method,
                   URL |-> v.URL, BodyString |-> v.BodyString,
                   Headers |-> v.Headers],
          requests |-> reqs, streams |-> strs]

\* Lines 96-127: dataRequestPayload and the heaps after the snapshot.
Snapshot(entry, reqs, strs) == SnapshotOf(entry.Data[REQUEST_FIELD_KEY], reqs, strs)

\* the stream a live payload's request body is, 0 when there is none
LiveBody(v) ==
    IF v.type = "LoggerHttpRequestPayload" /\ v.Request # 0
    THEN requests[v.Request].Body
    ELSE 0

\* What the entry's live request body held when Fire was called.
BodyAtFire(entry) ==
    IF LiveBody(entry.Data[REQUEST_FIELD_KEY]) # 0
    THEN [live  |-> TRUE,
          bytes |-> Remaining(streams[LiveBody(entry.Data[REQUEST_FIELD_KEY])]),
          err   |-> streams[LiveBody(entry.Data[REQUEST_FIELD_KEY])].err]
    ELSE [live |-> FALSE, bytes |-> "", err |-> FALSE]

EmptyUrlError == "Discord webhook url is empty"

\* Fire with the URL check of lines 92-94 left out.
FireReturnNoUrlCheck(url) == "nil"
\* What Fire returns (lines 92-94, 418).
FireReturn(url) == IF url = "" THEN EmptyUrlError ELSE "nil"

\* line 129
Launch(snap) ==
    /\ tasks' = Append(tasks, NewTask(snap.drp))
    /\ requests' = snap.requests
    /\ streams' = snap.streams

Fire(entry) ==
    /\ ~crashed
    /\ Len(entries) < MaxFires
    /\ entries' = Append(entries, entry)
    /\ atFire' = Append(atFire, [entry |-> entry, body |-> BodyAtFire(entry),
                                  got |-> callerGot])
    /\ rets' = Append(rets, FireReturn(hook.HookUrl))
    /\ IF FireReturn(hook.HookUrl) # "nil"
       THEN /\ tasks' = Append(tasks, NoTask)
            /\ UNCHANGED <<requests, streams>>
       ELSE Launch(Snapshot(entry, requests, streams))
    /\ UNCHANGED <<hook, newHookArgs, origBody, callerGot, crashed>>

(***************************************************************************)
(* The caller, between its log calls: it reads its request's body, and it  *)
(* reuses an entry it has logged.                                          *)
(***************************************************************************)
CallerRead(n) ==
    /\ ~crashed
    /\ Len(requests) >= 1
    /\ requests[1].Body # 0
    /\ n \in 1..Len(Remaining(streams[requests[1].Body]))
    /\ callerGot' = callerGot \o UpTo(Remaining(streams[requests[1].Body]), n)
    /\ streams' = [streams EXCEPT ![requests[1].Body].off = @ + n]
    /\ UNCHANGED <<hook, newHookArgs, entries, rets, tasks, atFire, requests,
                   origBody, crashed>>

\* The caller reuses the entry it passed to Fire number i, whose goroutine
\* has not ended, for the event e2.
CallerReuse(i, e2) ==
    /\ ~crashed
    /\ i \in 1..Len(entries)
    /\ tasks[i].pc \in {"render", "compose"}
    /\ entries[i] # e2
    /\ entries' = [entries EXCEPT ![i] = e2]
    /\ UNCHANGED <<hook, newHookArgs, rets, tasks, atFire, requests, streams,
                   origBody, callerGot, crashed>>

(***************************************************************************)
(* The delivery goroutine, lines 129-416, in three steps: the request      *)
(* payload fields (130-307), the document (309-343), the POST (345-414).   *)
(***************************************************************************)
Field(name, text) == [name |-> name, value |-> text]

\* The three backquotes of a code fence.  A TLA+ string cannot hold a
\* backquote, so the fence is written with three tildes; no modelled input
\* holds a tilde.
Ticks == "~~~"

\* Ticks + s + " " + Ticks, the fence with a space before the closing quotes
Fence(s) == Lit(Ticks \o s \o " " \o Ticks)

\* lines 130-137
ErrorMessageOf(data) ==
    IF data.error.type \in {"error", "string"} THEN data.error.text ELSE ""

\* lines 139-147
EmbedCollor(level) ==
    IF level \in {PanicLevel, FatalLevel, ErrorLevel} THEN 16725591
    ELSE IF level = WarnLevel THEN 16760630
    ELSE 12434877

maxRawBodyLogSize == 1024

OneOrMany(seq) == IF Len(seq) > 1 THEN [many |-> seq] ELSE [one |-> seq[1]]

\* lines 194-201
FormData(form) == [k \in DOMAIN form.Value |-> OneOrMany(form.Value[k])]
\* lines 205-225
FileInfo(form) ==
    [k \in DOMAIN form.File |->
       [nama   |-> OneOrMany([j \in 1..Len(form.File[k]) |-> form.File[k][j].Filename]),
        ukuran |-> OneOrMany([j \in 1..Len(form.File[k]) |->
                                SizeKB(form.File[k][j].Size)])]]
\* lines 227-233
Combined(formData, fileInfo) ==
    [k \in (IF DOMAIN formData # {} THEN {"form_fields"} ELSE {})
             \cup (IF DOMAIN fileInfo # {} THEN {"uploaded_files"} ELSE {}) |->
       IF k = "form_fields" THEN formData ELSE fileInfo]
\* lines 194-233: combinedData of a parsed form
CombinedData(form) == Combined(FormData(form), FileInfo(form))

\* what a case of the switch leaves: whether it panicked, r.MultipartForm,
\* whether r.Body was read, and the fields it appended
Rendered(panic, form, read, fields) ==
    [panic |-> panic, form |-> form, read |-> read, fields |-> fields]

\* Lines 188-243 after ParseMultipartForm came back with pm.  With
\* http.ErrNotMultipart the else branch runs on a nil r.MultipartForm, and
\* line 195 dereferences it: a nil pointer panic.
RenderParsed(pm) ==
    IF pm.err # "" /\ pm.err # ErrNotMultipart
    THEN Rendered(FALSE, pm.form, pm.read,
                  <<Field("Body", Lit(Ticks \o pm.err \o Ticks))>>)
    ELSE IF pm.form.nil
    THEN Rendered(TRUE, pm.form, pm.read, <<>>)
    ELSE Rendered(FALSE, pm.form, pm.read,
                  <<Field("Body", Lit(Ticks) \o MarshalIndent(CombinedData(pm.form))
                                    \o Lit(Ticks))>>)

\* lines 183-243
RenderMultipart(r, bodyBytes) == RenderParsed(ParseMultipartForm(r, bodyBytes))

\* lines 248-265, pq what url.ParseQuery came back with
RenderQuery(bodyBytes, pq) ==
    IF pq.err # "" THEN <<Field("Body", Fence(bodyBytes))>>
    ELSE <<Field("Body", Lit(Ticks) \o MarshalIndent(pq.values) \o Lit(Ticks))>>

\* lines 245-266
RenderUrlencoded(bodyBytes) ==
    IF Len(bodyBytes) > 0 THEN RenderQuery(bodyBytes, ParseQuery(bodyBytes)) ELSE <<>>

\* lines 268-280 with the size limit exclusive
RenderDefaultBelowMax(bodyBytes) ==
    IF Len(bodyBytes) > 0 /\ Len(bodyBytes) < maxRawBodyLogSize
    THEN <<Field("Body", Fence(bodyBytes))>>
    ELSE <<>>
\* lines 268-280
RenderDefault(bodyBytes) ==
    IF Len(bodyBytes) > 0 /\ Len(bodyBytes) <= maxRawBodyLogSize
    THEN <<Field("Body", Fence(bodyBytes))>>
    ELSE <<>>

\* Lines 175-280 with the cases of the switch in the opposite order.
RenderBodyReversed(r, bodyBytes) ==
    IF Contains(r.ContentType, "application/x-www-form-urlencoded")
    THEN Rendered(FALSE, r.MultipartForm, FALSE, RenderUrlencoded(bodyBytes))
    ELSE IF Contains(r.ContentType, "multipart/form-data")
    THEN RenderMultipart(r, bodyBytes)
    ELSE IF Contains(r.ContentType, "application/json")
    THEN Rendered(FALSE, r.MultipartForm, FALSE, <<Field("Body", Fence(bodyBytes))>>)
    ELSE Rendered(FALSE, r.MultipartForm, FALSE, RenderDefault(bodyBytes))

\* Lines 175-280: the switch on the Content-Type of the snapshot r, whose body
\* held bodyBytes.
RenderBody(r, bodyBytes) ==
    IF Contains(r.ContentType, "application/json")
    THEN Rendered(FALSE, r.MultipartForm, FALSE, <<Field("Body", Fence(bodyBytes))>>)
    ELSE IF Contains(r.ContentType, "multipart/form-data")
    THEN RenderMultipart(r, bodyBytes)
    ELSE IF Contains(r.ContentType, "application/x-www-form-urlencoded")
    THEN Rendered(FALSE, r.MultipartForm, FALSE, RenderUrlencoded(bodyBytes))
    ELSE Rendered(FALSE, r.MultipartForm, FALSE, RenderDefault(bodyBytes))

\* lines 282-305
ManualFields(drp) ==
    (IF drp.Method # "" THEN <<Field("Method", Fence(drp.Method))>> ELSE <<>>)
    \o (IF drp.URL # "" THEN <<Field("URL", Fence(drp.URL))>> ELSE <<>>)
    \o (IF drp.BodyString # "" THEN <<Field("Body", Fence(drp.BodyString))>> ELSE <<>>)
    \o (IF drp.Headers # "" THEN <<Field("Headers", Fence(drp.Headers))>> ELSE <<>>)

\* lines 130-147 and 167-170: the goroutine's locals after them; the entry e
\* is read through the pointer the closure holds, as it is at that moment
Locals(t, e, bodyBytes) ==
    [t EXCEPT !.errorMessage = ErrorMessageOf(e.Data),
              !.embedCollor = EmbedCollor(e.Level),
              !.bodyBytes = bodyBytes]

\* lines 155-164 and the fields of the switch
LiveFields(r, rb) ==
    <<Field("Method", Fence(r.Method)), Field("URL", Fence(r.URL))>> \o rb.fields

\* Lines 154-280 on the snapshot c whose body stream was old (0: nil), r1
\* the snapshot after line 172 and rb what the switch left.
RenderLive(i, c, old, t1, r1, rb) ==
    /\ requests' = [requests EXCEPT ![c] = [r1 EXCEPT !.MultipartForm = rb.form]]
    /\ streams' = IF old # 0
                  THEN [streams EXCEPT ![old] = Drained(@)]
                         \o <<IF rb.read THEN Drained(NewBuffer(t1.bodyBytes))
                              ELSE NewBuffer(t1.bodyBytes)>>
                  ELSE streams
    /\ IF rb.panic
       THEN /\ tasks' = [tasks EXCEPT ![i] = [t1 EXCEPT !.pc = "panicked"]]
            /\ crashed' = TRUE
       ELSE /\ tasks' = [tasks EXCEPT ![i] =
                           [t1 EXCEPT !.pc = "compose", !.fields = LiveFields(r1, rb)]]
            /\ UNCHANGED crashed

RenderSwitch(i, c, old, t1, r1) ==
    RenderLive(i, c, old, t1, r1, RenderBody(r1, t1.bodyBytes))

\* lines 167-173: the snapshot's body is read and replaced by a fresh buffer
RenderRequest(i, c, old) ==
    RenderSwitch(i, c, old,
                 Locals(tasks[i], entries[i],
                        IF old # 0 THEN ReadAll(streams[old]).bytes ELSE ""),
                 IF old # 0 THEN [requests[c] EXCEPT !.Body = Len(streams) + 1]
                 ELSE requests[c])

\* lines 153 and 281-306
RenderManual(i, drp) ==
    /\ tasks' = [tasks EXCEPT ![i] =
                   [Locals(tasks[i], entries[i], "") EXCEPT
                      !.pc = "compose",
                      !.fields = IF drp.nil THEN <<>> ELSE ManualFields(drp)]]
    /\ UNCHANGED <<requests, streams, crashed>>

\* Lines 130-307.
TaskRender(i) ==
    /\ ~crashed
    /\ i \in 1..Len(tasks)
    /\ tasks[i].pc = "render"
    /\ IF ~tasks[i].drp.nil /\ tasks[i].drp.Request # 0
       THEN RenderRequest(i, tasks[i].drp.Request,
                          requests[tasks[i].drp.Request].Body)
       ELSE RenderManual(i, tasks[i].drp)
    /\ UNCHANGED <<hook, newHookArgs, entries, rets, atFire, origBody, callerGot>>

maxMessageLength == 500

\* line 312 with the threshold off by one
SendAsFileFrom500(messageToSend) == Len(messageToSend) >= maxMessageLength
\* line 312
SendAsFile(messageToSend) == Len(messageToSend) > maxMessageLength

\* entry.Time.UTC().Format(time.RFC3339), times being seconds after a fixed
\* midnight
FormatRFC3339(t) == "2025-01-01T00:00:" \o Digits2(t) \o "Z"

\* lines 314-334
Embeds(title, errorMessage, timestamp, color, fields, messageToSend, sendAsFile) ==
    <<[title |-> title, description |-> errorMessage, timestamp |-> timestamp,
       color |-> color],
      [title |-> "REQUEST PAYLOAD", fields |-> fields, color |-> color]>>
    \o (IF ~sendAsFile
        THEN <<[title |-> "MESSAGE",
                description |-> Ticks \o messageToSend \o " " \o Ticks,
                color |-> color]>>
        ELSE <<>>)

\* lines 311-343 on the locals t and the entry e as it is at that moment
Composed(t, e, sendAsFile, title, timestamp) ==
    [t EXCEPT !.pc = "post", !.messageToSend = e.Message,
              !.sendAsFile = sendAsFile, !.title = title, !.timestamp = timestamp,
              !.payload = Marshal([username |-> "Golang",
                                   embeds |-> Embeds(title, t.errorMessage, timestamp,
                                                     t.embedCollor, t.fields,
                                                     e.Message, sendAsFile)])]

\* Lines 309-343.  json.Marshal cannot fail on this document (strings, ints,
\* maps and slices of them), so the return of line 342 is never taken.
TaskCompose(i) ==
    /\ ~crashed
    /\ i \in 1..Len(tasks)
    /\ tasks[i].pc = "compose"
    /\ tasks' = [tasks EXCEPT ![i] =
                   Composed(tasks[i], entries[i], SendAsFile(entries[i].Message),
                            ToUpperLevel(entries[i].Level),
                            FormatRFC3339(entries[i].Time))]
    /\ UNCHANGED <<hook, newHookArgs, entries, rets, atFire, requests, streams,
                   origBody, callerGot, crashed>>

(***************************************************************************)
(* The POST.                                                               *)
(***************************************************************************)
\* url.Parse inside http.NewRequest: what is wrong with the URL, "" when it
\* parses
UrlParseErr(rawURL) ==
    IF Contains(rawURL, "\n") THEN "net/url: invalid control character in URL"
    ELSE IF HasPrefix(rawURL, ":") THEN "missing protocol scheme"
    ELSE ""

\* err.Error() of the *url.Error http.NewRequest returns
NewRequestError(rawURL) == "parse \"" \o rawURL \o "\": " \o UrlParseErr(rawURL)

\* lines 346-372: the multipart body, written part by part.  The boundary
\* multipart.NewWriter draws at random is left out of the content type.
MultipartBody(payload, messageToSend) ==
    [contentType |-> "multipart/form-data; boundary=",
     body  |-> <<>>,
     parts |-> <<[name |-> "payload_json", value |-> payload],
                 [name |-> "files[0]", filename |-> "log.txt",
                  content |-> messageToSend]>>]

\* line 395-396: the JSON body
InlineBody(payload) ==
    [contentType |-> "application/json", body |-> <<payload>>, parts |-> <<>>]

\* What client.Do can come back with: a transport error, or a response.
DoOutcomes ==
    {[err |-> "dial tcp: connection refused", status |-> 0],
     [err |-> "", status |-> 299],
     [err |-> "", status |-> 300]}

\* lines 381-393 and 402-414 with a second client.Do after a failed one
DeliverRetrying(t, url, req, out) ==
    [t EXCEPT !.pc = "done",
              !.posts = IF out.err # "" \/ out.status >= 300
                        THEN @ \o <<[url |-> url, request |-> req, outcome |-> out],
                                    [url |-> url, request |-> req, outcome |-> out]>>
                        ELSE Append(@, [url |-> url, request |-> req, outcome |-> out]),
              !.stdout = IF out.err # "" THEN Append(@, out.err)
                         ELSE IF out.status >= 300
                         THEN Append(@, "Failed to post to Discord webhook")
                         ELSE @]
\* lines 381-393 and 402-414: one client.Do and what is printed after it
Deliver(t, url, req, out) ==
    [t EXCEPT !.pc = "done",
              !.posts = Append(@, [url |-> url, request |-> req, outcome |-> out]),
              !.stdout = IF out.err # "" THEN Append(@, out.err)
                         ELSE IF out.status >= 300
                         THEN Append(@, "Failed to post to Discord webhook")
                         ELSE @]

\* What follows a failed http.NewRequest.  File mode (lines 374-378) prints
\* the error and returns.  Inline mode (lines 395-400) calls
\* request.Header.Set on the nil request before it looks at err: a nil pointer
\* panic.
OnNewRequestError(sendAsFile) == IF sendAsFile THEN "print" ELSE "panic"

\* lines 374-378 and 395-400 when http.NewRequest failed with perr
PostUnbuilt(i, perr) ==
    IF OnNewRequestError(tasks[i].sendAsFile) = "panic"
    THEN /\ tasks' = [tasks EXCEPT ![i].pc = "panicked"]
         /\ crashed' = TRUE
    ELSE /\ tasks' = [tasks EXCEPT ![i].pc = "done", ![i].stdout = Append(@, perr)]
         /\ UNCHANGED crashed

\* lines 379-393 and 401-414
PostBuilt(i, t) ==
    /\ \E out \in DoOutcomes :
         tasks' = [tasks EXCEPT ![i] =
                     Deliver(t, hook.HookUrl,
                             IF t.sendAsFile
                             THEN MultipartBody(t.payload, t.messageToSend)
                             ELSE InlineBody(t.payload),
                             out)]
    /\ UNCHANGED crashed

\* Lines 345-414.
TaskPost(i) ==
    /\ ~crashed
    /\ i \in 1..Len(tasks)
    /\ tasks[i].pc = "post"
    /\ IF UrlParseErr(hook.HookUrl) # ""
       THEN PostUnbuilt(i, NewRequestError(hook.HookUrl))
       ELSE PostBuilt(i, tasks[i])
    /\ UNCHANGED <<hook, newHookArgs, entries, rets, atFire, requests, streams,
                   origBody, callerGot>>

(***************************************************************************)
(* Inputs: the hook's construction, the caller's live request, the entries *)
(* it logs.                                                                *)
(***************************************************************************)
GoodUrl == "https://discord.com/api/webhooks/1/t"
BadUrl == "://discord.com/api/webhooks/1/t"

RECURSIVE SeqsUpTo(_, _)
\* the sequences over S of length at most n
SeqsUpTo(S, n) ==
    IF n = 0 THEN {<<>>}
    ELSE SeqsUpTo(S, n - 1)
           \cup {Append(q, x) : q \in {p \in SeqsUpTo(S, n - 1) : Len(p) = n - 1}, x \in S}

\* a live request as the caller holds it: body.nil for a nil Body, body.data
\* what the stream delivers, body.err whether it then fails
Request(method, url, contentType, data) ==
    [Method |-> method, URL |-> url, ContentType |-> contentType,
     body |-> [nil |-> FALSE, data |-> data, err |-> FALSE]]

NoBody(r) == [r EXCEPT !.body = [nil |-> TRUE, data |-> "", err |-> FALSE]]
Failing(r) == [r EXCEPT !.body.err = TRUE]

PlainRequest == Request("PUT", "/notes/7", "text/plain", "hi")
JsonRequest == Request("POST", "/api/users", "application/json; charset=utf-8", "{\"a\":1}")
GetRequest == NoBody(Request("GET", "/api/users?id=1", "", ""))

FormRequest == Request("POST", "/login", "application/x-www-form-urlencoded", "a=1&b=2")
BadFormRequest == Request("POST", "/login", "application/x-www-form-urlencoded", "a=%zz")

FormBody ==
    "--X\r\nContent-Disposition: form-data; name=\"a\"\r\n\r\n1\r\n"
    \o "--X\r\nContent-Disposition: form-data; name=\"f\"; filename=\"x.txt\"\r\n"
    \o "Content-Type: text/plain\r\n\r\nhello\r\n--X--\r\n"

MultipartRequest == Request("POST", "/upload", "multipart/form-data; boundary=X", FormBody)
\* the handler has read the body before it logs
DrainedMultipartRequest == Request("POST", "/upload", "multipart/form-data; boundary=X", "")
NoBoundaryRequest == Request("POST", "/upload", "multipart/form-data", FormBody)
\* a Content-Type that holds the substring and is another media type
NotMultipartRequest == Request("POST", "/upload", "multipart/form-data-v2; boundary=X", FormBody)

AbsentValue == [type |-> "absent", text |-> ""]
AbsentRequest == [type |-> "absent", Request |-> 0, Method |-> "", URL |-> "",
                  BodyString |-> "", Headers |-> ""]
LivePayload == [AbsentRequest EXCEPT !.type = "LoggerHttpRequestPayload", !.Request = 1]
ManualPayload ==
    [type |-> "LoggerHttpRequestPayload", Request |-> 0, Method |-> "POST",
     URL |-> "https://api.example.com/users", BodyString |-> "{\"name\": \"John\"}",
     Headers |-> ""]
\* a pointer to a payload: the type assertion of line 99 fails
PointerPayload == [ManualPayload EXCEPT !.type = "*LoggerHttpRequestPayload"]

Entry(level, message, errValue, request) ==
    [Level |-> level, Message |-> message, Time |-> 0,
     Data |-> [error |-> errValue, request |-> request]]

\* what the caller logs
EntryInputs ==
    {Entry(WarnLevel, Rep("m", maxMessageLength), AbsentValue, AbsentRequest),
     Entry(ErrorLevel, Rep("m", maxMessageLength + 1),
           [type |-> "string", text |-> "oops"], ManualPayload),
     Entry(PanicLevel, "", [type |-> "int", text |-> ""], PointerPayload),
     Entry(InfoLevel, "started", AbsentValue, AbsentRequest),
     Entry(ErrorLevel, "save failed", [type |-> "error", text |-> "db down"],
           LivePayload),
     Entry(FatalLevel, Rep("x", maxMessageLength + 1), AbsentValue, LivePayload)}

\* what the caller reuses a logged entry for
ReuseInputs ==
    {[Entry(InfoLevel, "reused", [type |-> "string", text |-> "later"],
            AbsentRequest) EXCEPT !.Time = 9]}

Range(q) == {q[i] : i \in DOMAIN q}

\* The caller logs: logrus stamps the entry with the time and fires the hook
\* if the hook's Levels hold the entry's level.
Log ==
    \E in \in EntryInputs :
        /\ in.Level \in Range(Levels)
        /\ Fire([in EXCEPT !.Time = Len(entries) + 1])

InitWith(urls, args, lives) ==
    /\ \E u \in urls, a \in args :
         /\ hook = NewHook(u, a)
         /\ newHookArgs = a
    /\ \E r \in lives :
         /\ requests = <<[Method |-> r.Method, URL |-> r.URL,
                          ContentType |-> r.ContentType,
                          Body |-> IF r.body.nil THEN 0 ELSE 1,
                          MultipartForm |-> NilForm]>>
         /\ streams = IF r.body.nil THEN <<>>
                      ELSE <<[data |-> r.body.data, off |-> 0, err |-> r.body.err]>>
         /\ origBody = r.body.data
    /\ entries = <<>>
    /\ rets = <<>>
    /\ tasks = <<>>
    /\ atFire = <<>>
    /\ callerGot = ""
    /\ crashed = FALSE

\* the caller reads one byte (at most MaxPeek times from the start) or all
\* that is left
Read ==
    \/ Len(callerGot) < MaxPeek /\ CallerRead(1)
    \/ /\ Len(requests) >= 1
       /\ requests[1].Body # 0
       /\ CallerRead(Len(Remaining(streams[requests[1].Body])))
Reuse == \E i \in 1..MaxFires, e2 \in ReuseInputs : CallerReuse(i, e2)
Render == \E i \in 1..MaxFires : TaskRender(i)
Compose == \E i \in 1..MaxFires : TaskCompose(i)
Post == \E i \in 1..MaxFires : TaskPost(i)

Next == Log \/ Read \/ Render \/ Compose \/ Post

\* A handler that logs about its request, with a well-formed webhook URL.
Init == InitWith({GoodUrl}, {<<>>},
                 {PlainRequest, JsonRequest, GetRequest, Failing(PlainRequest),
                  Failing(Request("PUT", "/notes/7", "text/plain", ""))})
Spec == Init /\ [][Next]_vars

\* The same with webhook URLs that are empty or do not parse.
InitUrl == InitWith({"", BadUrl, GoodUrl}, {<<>>}, {PlainRequest})
SpecUrl == InitUrl /\ [][Next]_vars

\* Requests with form bodies, well-formed and not.
InitRender == InitWith({GoodUrl}, {<<>>},
                       {FormRequest, BadFormRequest, MultipartRequest,
                        DrainedMultipartRequest, NoBoundaryRequest,
                        NotMultipartRequest})
SpecRender == InitRender /\ [][Next]_vars

\* Hooks built with explicit levels.
InitLevels == InitWith({GoodUrl}, SeqsUpTo({InfoLevel, ErrorLevel}, MaxLevelArgs),
                       {PlainRequest})
SpecLevels == InitLevels /\ [][Next]_vars

\* A caller that reuses its entries.
NextMut == Next \/ Reuse
SpecMut == Init /\ [][NextMut]_vars

\* Requests whose Content-Type holds several of the substrings the switch
\* looks for, and requests of other or no Content-Type with bodies around
\* maxRawBodyLogSize.
BodyRequests ==
    {Request("POST", "/upload",
             "multipart/form-data; boundary=X; alt=\"application/json\"", FormBody),
     Request("POST", "/upload",
             "multipart/form-data; boundary=X; alt=\"application/x-www-form-urlencoded\"",
             FormBody),
     Request("POST", "/login",
             "application/x-www-form-urlencoded; alt=\"application/json\"", "a=1&b=2"),
     Request("PUT", "/blob", "application/octet-stream", ""),
     Request("PUT", "/blob", "application/octet-stream", "b"),
     Request("PUT", "/blob", "", Rep("b", maxRawBodyLogSize)),
     Request("PUT", "/blob", "application/octet-stream", Rep("b", maxRawBodyLogSize + 1))}
InitBody == InitWith({GoodUrl}, {<<>>}, BodyRequests)
SpecBody == InitBody /\ [][Next]_vars

(***************************************************************************)
(* The claims.                                                             *)
(***************************************************************************)
\* the body stream of request number r
BodyOf(r) == streams[requests[r].Body]

\* the snapshot of Fire number i yields the bytes the body held at that call:
\* they are still to be read from its start, or the goroutine has read them
SnapshotIntact(i) ==
    IF tasks[i].pc = "render"
    THEN /\ requests[tasks[i].drp.Request].Body # requests[1].Body
         /\ BodyOf(tasks[i].drp.Request).off = 0
         /\ Remaining(BodyOf(tasks[i].drp.Request)) = atFire[i].body.bytes
    ELSE tasks[i].bodyBytes = atFire[i].body.bytes

\* what the caller has read and what its stream still holds make up the body
CallerStreamIntact == callerGot \o Remaining(BodyOf(1)) = origBody

(* C1: for every Fire with a live request whose body held bytes B, the      *)
(* snapshot yields exactly B from its start and the original yields exactly *)
(* what it held; under every interleaving of the caller's reads and the     *)
(* goroutine's, neither stream loses or repeats a byte.                     *)
C1_BodyStreamsIndependent ==
    /\ requests[1].Body # 0 => CallerStreamIntact
    /\ \A i \in 1..Len(tasks) :
         atFire[i].body.live /\ tasks[i].pc # "none" => SnapshotIntact(i)

\* the caller read all of "hi" after a Fire whose goroutine read all of it too
C1_Witness ==
    \E i \in 1..Len(tasks) :
        /\ atFire[i].body.live
        /\ atFire[i].body.bytes = "hi"
        /\ ~atFire[i].body.err
        /\ tasks[i].pc = "done"
        /\ tasks[i].bodyBytes = "hi"
        /\ callerGot = "hi"

(* C2: with the empty webhook URL every Fire returns the error, launches no *)
(* goroutine and posts nothing; with any other URL every Fire returns nil.  *)
C2_EmptyUrlFailsFast ==
    \A i \in 1..Len(rets) :
        IF hook.HookUrl = ""
        THEN rets[i] = EmptyUrlError /\ tasks[i].pc = "none" /\ tasks[i].posts = <<>>
        ELSE rets[i] = "nil" /\ tasks[i].pc # "none"

\* two Fire calls on a hook with the empty URL
C2_Witness ==
    /\ hook.HookUrl = ""
    /\ Len(rets) = 2
    /\ rets[1] = EmptyUrlError
    /\ tasks[2].pc = "none"

(* C3: no failure of a goroutine reaches the caller: every Fire that        *)
(* launched one returned nil, and the process the caller runs in is never   *)
(* ended by one.                                                            *)
C3_AsyncFailureIsSilent ==
    /\ ~crashed
    /\ \A i \in 1..Len(rets) : tasks[i].pc # "none" => rets[i] = "nil"

\* the sections titled MESSAGE of a document
MessageSections(doc) ==
    {k \in DOMAIN doc.json.embeds : doc.json.embeds[k].title = "MESSAGE"}
\* the parts named name of a request
PartsNamed(req, name) == {k \in DOMAIN req.parts : req.parts[k].name = name}

\* single-part JSON with one MESSAGE section, the fenced m, and no attachment
InlineOnce(req, m) ==
    /\ req.contentType = "application/json"
    /\ req.parts = <<>>
    /\ Len(req.body) = 1
    /\ \E k \in DOMAIN req.body[1].json.embeds :
         /\ MessageSections(req.body[1]) = {k}
         /\ req.body[1].json.embeds[k].description = Ticks \o m \o " " \o Ticks
\* multipart with one files[0] part, m, and a document without MESSAGE section
FileOnce(req, m) ==
    /\ HasPrefix(req.contentType, "multipart/form-data")
    /\ req.body = <<>>
    /\ \E f, j \in DOMAIN req.parts :
         /\ PartsNamed(req, "files[0]") = {f}
         /\ req.parts[f].content = m
         /\ PartsNamed(req, "payload_json") = {j}
         /\ MessageSections(req.parts[j].value) = {}

(* C4: every POST sent carries the message of its event exactly once: up to *)
(* 500 bytes inline in a MESSAGE section of a JSON body without attachment, *)
(* beyond 500 as the files[0] part of a multipart body whose document has   *)
(* no MESSAGE section.                                                      *)
C4_MessageExactlyOnce ==
    \A i \in 1..Len(tasks) :
        \A k \in DOMAIN tasks[i].posts :
            IF Len(atFire[i].entry.Message) <= maxMessageLength
            THEN InlineOnce(tasks[i].posts[k].request, atFire[i].entry.Message)
            ELSE FileOnce(tasks[i].posts[k].request, atFire[i].entry.Message)

\* a message of 500 bytes sent inline and one of 501 sent as a file
C4_Witness ==
    \E i, j \in 1..Len(tasks) :
        /\ Len(atFire[i].entry.Message) = 500
        /\ Len(tasks[i].posts) = 1
        /\ InlineOnce(tasks[i].posts[1].request, atFire[i].entry.Message)
        /\ Len(atFire[j].entry.Message) = 501
        /\ Len(tasks[j].posts) = 1
        /\ FileOnce(tasks[j].posts[1].request, atFire[j].entry.Message)

(* C5, as the code has it: when the read of the body fails during the       *)
(* snapshot, Fire goes on with the bytes read before the failure (none if   *)
(* it failed at once) in the snapshot and in the stream put back on the     *)
(* original, returns nil and launches the goroutine.                        *)
C5_ReadFailureKeepsBytesRead ==
    \A i \in 1..Len(tasks) :
        atFire[i].body.live /\ atFire[i].body.err =>
            /\ rets[i] = "nil"
            /\ tasks[i].pc # "none"
            /\ SnapshotIntact(i)
            /\ ~BodyOf(1).err
            /\ CallerStreamIntact

(* C5, as stated: when the read of the body fails during the snapshot, the  *)
(* snapshot body and the stream put back on the original hold no bytes.     *)
C5_ReadFailureGivesEmptyBody ==
    \A i \in 1..Len(tasks) :
        atFire[i].body.live /\ atFire[i].body.err =>
            /\ rets[i] = "nil"
            /\ tasks[i].pc # "none"
            /\ tasks[i].pc = "render" => Remaining(BodyOf(tasks[i].drp.Request)) = ""
            /\ tasks[i].pc # "render" => tasks[i].bodyBytes = ""
            /\ Remaining(BodyOf(1)) = ""

\* the body gave "hi" and then failed, and the delivery rendered "hi"
C5_Witness ==
    \E i \in 1..Len(tasks) :
        /\ atFire[i].body.err
        /\ atFire[i].body.bytes = "hi"
        /\ rets[i] = "nil"
        /\ tasks[i].pc = "done"
        /\ tasks[i].bodyBytes = "hi"
        /\ Len(tasks[i].posts) = 1

(* C6: what a goroutine renders and sends is the event as it was when Fire  *)
(* was called, whatever the caller does to the entry afterwards.            *)
C6_DeliveryIsOfTheEventFired ==
    \A i \in 1..Len(tasks) :
        tasks[i].pc \in {"post", "done"} =>
            /\ tasks[i].messageToSend = atFire[i].entry.Message
            /\ tasks[i].title = ToUpperLevel(atFire[i].entry.Level)
            /\ tasks[i].timestamp = FormatRFC3339(atFire[i].entry.Time)
            /\ tasks[i].errorMessage = ErrorMessageOf(atFire[i].entry.Data)
            /\ tasks[i].embedCollor = EmbedCollor(atFire[i].entry.Level)

(* C7: when the request cannot be built from the webhook URL, the goroutine *)
(* prints the error, sends no POST and ends normally, in both modes.        *)
C7_UnbuiltRequestIsReported ==
    \A i \in 1..Len(tasks) :
        UrlParseErr(hook.HookUrl) # "" /\ tasks[i].pc \in {"done", "panicked"} =>
            /\ tasks[i].pc = "done"
            /\ tasks[i].stdout = <<NewRequestError(hook.HookUrl)>>
            /\ tasks[i].posts = <<>>

\* the content type of the snapshot of Fire number i
SnapshotContentType(i) == requests[tasks[i].drp.Request].ContentType

(* C8: a goroutine whose snapshot has a multipart or urlencoded content     *)
(* type gets past the render step, whatever the body and the content type   *)
(* are.                                                                     *)
C8_RenderErrorNeverAborts ==
    \A i \in 1..Len(tasks) :
        /\ atFire[i].body.live
        /\ tasks[i].pc # "render"
        /\ \/ Contains(SnapshotContentType(i), "multipart/form-data")
           \/ Contains(SnapshotContentType(i), "application/x-www-form-urlencoded")
        => tasks[i].pc \in {"compose", "post", "done"}

(* C9: Levels() is the levels NewHook was given, in their order, when it    *)
(* was given any, and Panic, Fatal, Error, Warn when it was given none; no  *)
(* Fire call changes it.                                                    *)
C9_LevelsAreAsConfigured ==
    Levels = IF Len(newHookArgs) >= 1 THEN newHookArgs
             ELSE <<PanicLevel, FatalLevel, ErrorLevel, WarnLevel>>

\* a hook built with Info and Error, after two Fire calls
C9_Witness ==
    /\ newHookArgs = <<InfoLevel, ErrorLevel>>
    /\ Levels = <<InfoLevel, ErrorLevel>>
    /\ Len(entries) = 2

\* a document without its timestamp
Untimed(doc) == [doc EXCEPT !.json.embeds[1].timestamp = ""]
SameEvent(e1, e2) == [e1 EXCEPT !.Time = 0] = [e2 EXCEPT !.Time = 0]
Composed2(i, j) == tasks[i].pc \in {"post", "done"} /\ tasks[j].pc \in {"post", "done"}

(* C10: two Fire calls with the same event, the caller reading nothing of   *)
(* the request body between them, give two deliveries with their own        *)
(* snapshots whose documents are the same apart from the timestamp, and     *)
(* whose attachments are the same.                                          *)
C10_SameEventSameDocument ==
    \A i, j \in 1..Len(tasks) :
        /\ i < j
        /\ SameEvent(atFire[i].entry, atFire[j].entry)
        /\ atFire[i].got = atFire[j].got
        /\ Composed2(i, j)
        => /\ Untimed(tasks[i].payload) = Untimed(tasks[j].payload)
           /\ tasks[i].sendAsFile = tasks[j].sendAsFile
           /\ tasks[i].messageToSend = tasks[j].messageToSend
           /\ tasks[i].drp.Request # 0 => tasks[i].drp.Request # tasks[j].drp.Request

\* the same event with the live request fired twice, both delivered with
\* the Body field
C10_Witness ==
    /\ Len(tasks) = 2
    /\ SameEvent(atFire[1].entry, atFire[2].entry)
    /\ atFire[1].body.live
    /\ atFire[1].body.bytes = "hi"
    /\ tasks[1].pc = "done"
    /\ tasks[2].pc = "done"
    /\ Len(tasks[2].fields) = 3
    /\ tasks[1].payload # tasks[2].payload

\* the rule for a Content-Type, by the precedence json, multipart,
\* urlencoded, default
RuleOf(ct) ==
    IF Contains(ct, "application/json") THEN "json"
    ELSE IF Contains(ct, "multipart/form-data") THEN "multipart"
    ELSE IF Contains(ct, "application/x-www-form-urlencoded") THEN "urlencoded"
    ELSE "default"
\* the fields the rule appends for the snapshot r whose body held b
FieldsByRule(rule, r, b) ==
    CASE rule = "json"       -> <<Field("Body", Fence(b))>>
      [] rule = "multipart"  -> RenderMultipart(r, b).fields
      [] rule = "urlencoded" -> RenderUrlencoded(b)
      [] OTHER               -> RenderDefault(b)
\* the fields of task i that are named Body, and those after Method and URL
BodyFields(i) == {k \in DOMAIN tasks[i].fields : tasks[i].fields[k].name = "Body"}
FieldsAfterUrl(i) == SubSeq(tasks[i].fields, 3, Len(tasks[i].fields))
\* task i has rendered the fields of a live request
RenderedLive(i) ==
    /\ tasks[i].drp.Request # 0
    /\ tasks[i].pc \in {"compose", "post", "done"}

(* C11: the fields a goroutine renders for a live request after Method and  *)
(* URL are those of the first rule, in the order json, multipart,           *)
(* urlencoded, default, whose substring the Content-Type holds, and of no   *)
(* other rule; at most one of all its fields is named Body.                 *)
C11_EarliestRuleRenders ==
    \A i \in 1..Len(tasks) :
        RenderedLive(i) =>
            /\ Cardinality(BodyFields(i)) <= 1
            /\ FieldsAfterUrl(i) =
                  FieldsByRule(RuleOf(SnapshotContentType(i)),
                               requests[tasks[i].drp.Request], tasks[i].bodyBytes)

\* a Content-Type that holds the multipart and the urlencoded substring,
\* rendered as the parsed multipart form
C11_Witness ==
    \E i \in 1..Len(tasks) :
        /\ RenderedLive(i)
        /\ Contains(SnapshotContentType(i), "multipart/form-data")
        /\ Contains(SnapshotContentType(i), "application/x-www-form-urlencoded")
        /\ ~Contains(SnapshotContentType(i), "application/json")
        /\ BodyFields(i) = {3}
        /\ tasks[i].fields[3].value =
             Lit(Ticks) \o MarshalIndent(CombinedData(ReadForm(FormBody, "X"))) \o Lit(Ticks)

\* the document a request carries
DocOf(req) == IF req.parts = <<>> THEN req.body[1] ELSE req.parts[1].value
\* the goroutine of Fire number i is past the render step for a live request
\* whose Content-Type holds none of the three substrings
PastDefaultRule(i) ==
    /\ tasks[i].drp.Request # 0
    /\ tasks[i].pc # "render"
    /\ RuleOf(SnapshotContentType(i)) = "default"
\* Method, URL and the fields are delivered in the document of the one POST
RestDelivered(i) ==
    /\ Len(tasks[i].posts) = 1
    /\ DocOf(tasks[i].posts[1].request).json.embeds[2].fields = tasks[i].fields
    /\ DocOf(tasks[i].posts[1].request).json.embeds[1].title =
         ToUpperLevel(atFire[i].entry.Level)
    /\ tasks[i].messageToSend = atFire[i].entry.Message

(* C12: for a live request whose Content-Type holds none of the three       *)
(* substrings, or is missing, there is a Body field exactly when the body   *)
(* has 1 to 1024 bytes, and it holds the fenced bytes in full; with no      *)
(* bytes or with 1025 and more there is no Body field, the goroutine goes   *)
(* on, and Method, URL, the event's level and its message are delivered.    *)
C12_RawBodyUpTo1024 ==
    \A i \in 1..Len(tasks) :
        PastDefaultRule(i) =>
            /\ tasks[i].pc \in {"compose", "post", "done"}
            /\ tasks[i].fields[1].name = "Method"
            /\ tasks[i].fields[2].name = "URL"
            /\ BodyFields(i) # {} <=>
                 Len(atFire[i].body.bytes) \in 1..maxRawBodyLogSize
            /\ FieldsAfterUrl(i) =
                 IF Len(atFire[i].body.bytes) \in 1..maxRawBodyLogSize
                 THEN <<Field("Body", Fence(atFire[i].body.bytes))>>
                 ELSE <<>>
            /\ tasks[i].pc = "done" => RestDelivered(i)

\* a body of 1025 bytes delivered without Body field and, a byte read by
\* the caller later, its 1024 bytes delivered with it
C12_Witness ==
    \E i, j \in 1..Len(tasks) :
        /\ PastDefaultRule(i)
        /\ Len(atFire[i].body.bytes) = 1025
        /\ BodyFields(i) = {}
        /\ tasks[i].pc = "done"
        /\ RestDelivered(i)
        /\ PastDefaultRule(j)
        /\ Len(atFire[j].body.bytes) = 1024
        /\ BodyFields(j) = {3}
        /\ tasks[j].pc = "done"

\* what the goroutine prints after a POST that came back with out
PrintedAfter(out) ==
    IF out.err # "" THEN <<out.err>>
    ELSE IF out.status >= 300 THEN <<"Failed to post to Discord webhook">>
    ELSE <<>>
\* Fire number i has led to no POST or to one, to the webhook, after which
\* its goroutine has ended with the one line or none printed and Fire's nil
OnePostAtMost(i) ==
    /\ Len(tasks[i].posts) <= 1
    /\ Len(tasks[i].posts) = 1 =>
         /\ tasks[i].pc = "done"
         /\ rets[i] = "nil"
         /\ tasks[i].posts[1].url = hook.HookUrl
         /\ tasks[i].stdout = PrintedAfter(tasks[i].posts[1].outcome)
\* a goroutine that has ended does nothing more
EndedStaysEnded ==
    \A i \in 1..Len(tasks) : tasks[i].pc = "done" => tasks'[i] = tasks[i]

(* C13: every Fire call leads to at most one POST to the webhook: after a   *)
(* transport error or a status of 300 and more the goroutine prints one     *)
(* line and ends, after a status below 300 it prints nothing and ends, and  *)
(* once ended it never posts again.                                         *)
C13_SingleAttempt ==
    /\ [](\A i \in 1..Len(tasks) : OnePostAtMost(i))
    /\ [][EndedStaysEnded]_vars

\* one POST answered with 300 and reported, one answered with 299 and not
C13_Witness ==
    \E i, j \in 1..Len(tasks) :
        /\ tasks[i].pc = "done"
        /\ Len(tasks[i].posts) = 1
        /\ tasks[i].posts[1].outcome.status = 300
        /\ tasks[i].stdout = <<"Failed to post to Discord webhook">>
        /\ tasks[j].pc = "done"
        /\ Len(tasks[j].posts) = 1
        /\ tasks[j].posts[1].outcome.status = 299
        /\ tasks[j].stdout = <<>>

====
